---------------------------- MODULE Spec2Model ----------------------------
(***************************************************************************)
(* A model of the EcoNest security camera (src/app.py and the older        *)
(* src/security_camera.py).                                                *)
(*                                                                         *)
(*   Spec          the frame hub: SharedCamera.update (the producer        *)
(*                 thread) and SharedCamera.get_frame as called by the     *)
(*                 recorder, the detector and every viewer, interleaved    *)
(*                 at the granularity of the calls on the shared Queue.    *)
(*   FairSpec      the same hub with an unending supply of frames, under   *)
(*                 a fair scheduler.                                       *)
(*   StopSpec      the same hub with camera.stop() called at any time,     *)
(*                 under a fair scheduler.                                 *)
(*   DetectorSpec  the cooldown gate of detect_anomalies, one action per   *)
(*                 cycle of its loop, under an advancing wall clock.       *)
(*   RetentionSpec manage_storage (both files) applied to arbitrary        *)
(*                 contents of the videos and anomalies directories.       *)
(*   SweepSpec     manage_storage of app.py run by two threads at once,    *)
(*                 one step per directory listing and per loop pass.       *)
(*   RecorderSpec  record_video (both files), one action per cycle of its  *)
(*                 loop; ShutdownSpec adds the end of __main__.            *)
(*   PageSpec      the route get_anomalies on arbitrary directory          *)
(*                 listings and request arguments.                         *)
(*                                                                         *)
(* A frame carries no sequence number in the code; the model tags each     *)
(* frame with the index of the cap.read() that produced it, so that the    *)
(* order in which frames reach a consumer can be stated.                   *)
(***************************************************************************)
EXTENDS Integers, Sequences, FiniteSets, TLC

VARIABLES
    \* ---- frame hub (SharedCamera) ----
    frame_queue,        \* self.frame_queue: the frames queued, oldest first
    running,            \* self.running
    ppc,                \* where the capture thread is in update()
    captured,           \* number of successful cap.read() calls = tag of the frame in hand
    published,          \* tag of the newest frame ever put on the queue (0: none)
    cpc,                \* per consumer: where it is in get_frame()
    last,               \* per consumer: the frame its latest non-empty get_frame returned
    prev,               \* per consumer: the frame the non-empty get_frame before that returned
    polled,             \* per consumer inside get_frame: `published' when it tested empty()
    read_failed,        \* a cap.read() of update() has failed since the start
    \* ---- detector (detect_anomalies) ----
    clock,              \* time.time(), in seconds
    last_capture_time,  \* detect_anomalies' local of that name
    snapshots,          \* clock readings at which a snapshot was written
    suppressed,         \* clock readings at which a flagged anomaly was not written
    cycle,              \* what the latest cycle of the detector loop did
    detector_alive,     \* the detect_anomalies thread is still in its loop
    \* ---- retention (manage_storage) ----
    now,                \* time.time() as read by the sweep
    videos,             \* names in VIDEO_STORAGE_DIR
    anomalies,          \* names in ANOMALY_STORAGE_DIR
    swept,              \* which manage_storage ran last ("none" before any)
    pre_videos,         \* VIDEO_STORAGE_DIR as the latest sweep found it
    pre_anomalies,      \* ANOMALY_STORAGE_DIR as the latest sweep found it
    raised,             \* the exception the latest sweep ended with ("none": returned)
    \* ---- manage_storage of app.py, statement by statement, per calling thread ----
    spc,                \* per caller: where it is in manage_storage
    todo,               \* per caller: the list its current loop runs over, the part not yet visited
    left,               \* per caller: passes of the loop of line 215 still to make
    deleted,            \* per caller: the files its os.remove calls deleted
    gone,               \* per caller: the file whose os.remove raised out of manage_storage
    \* ---- recorder (record_video) and the main thread ----
    rec_impl,           \* which record_video runs: "app" (app.py) or "legacy" (security_camera.py)
    video_writer,       \* the open chunk, by name (NoFile: video_writer is None)
    end_time,           \* record_video's local of that name
    opened,             \* the chunks opened so far, each with the clock reading after its opening
    chunk_frames,       \* <<chunk, frame>> for every video_writer.write(frame)
    released,           \* the chunks released, each with the clock reading of its release
    rec_polled,         \* number of frames the recorder has polled = tag of the latest
    rec_cycle,          \* what the latest cycle of the recorder loop did
    rec_alive,          \* the record_video thread is still in its loop
    process,            \* "serving" while the Flask server runs, "exited" once __main__ has ended
    \* ---- GET /get_anomalies ----
    dir_listing,        \* os.listdir(ANOMALY_STORAGE_DIR): file names, as lists of code points
    page,               \* the request's `page' argument
    per_page,           \* the request's `per_page' argument
    images,             \* the urls of the response, in order
    responded           \* get_anomalies has returned its response

hubVars == <<frame_queue, running, ppc, captured, published, cpc, last, prev, polled, read_failed>>
detVars == <<clock, last_capture_time, snapshots, suppressed, cycle, detector_alive>>
retVars == <<now, videos, anomalies, swept, pre_videos, pre_anomalies, raised>>
sweepVars == <<spc, todo, left, deleted, gone>>
recVars == <<rec_impl, video_writer, end_time, opened, chunk_frames, released, rec_polled,
             rec_cycle, rec_alive, process>>
pageVars == <<dir_listing, page, per_page, images, responded>>
vars == <<hubVars, detVars, retVars, sweepVars, recVars, pageVars>>
notHub == <<detVars, retVars, sweepVars, recVars, pageVars>>
notDet == <<hubVars, retVars, sweepVars, recVars, pageVars>>
notRet == <<hubVars, detVars, sweepVars, recVars, pageVars>>
notSweep == <<hubVars, detVars, recVars, pageVars>>
notRec == <<hubVars, sweepVars, pageVars,
            last_capture_time, snapshots, suppressed, cycle, detector_alive>>
notPage == <<hubVars, detVars, retVars, sweepVars, recVars>>

-----------------------------------------------------------------------------
(* Bounds of the model. *)

\* cap.read() succeeds at most this many times in a run.
MaxFrames == 3

\* Number of /video_feed clients streaming (each runs generate_frames).
NumViewers == 1

-----------------------------------------------------------------------------
(* The frame hub: class SharedCamera. *)

\* SharedCamera.__init__'s queue_size. The global camera takes the default, 10;
\* the model runs the same code with a shorter queue, which every branch of
\* update() and get_frame() treats alike.
queue_size == 2

Viewers == 1..NumViewers

\* The callers of camera.get_frame(): record_video, detect_anomalies and one
\* generate_frames per connected viewer.
Recorder == <<"recorder", 0>>
Detector == <<"detector", 0>>
Consumers == {Recorder, Detector} \cup ({"viewer"} \X Viewers)

\* A full() that holds only past maxsize.
FullAbove(q) == Len(q) > queue_size

\* Queue.full() and Queue.empty()
Full(q) == Len(q) >= queue_size
Empty(q) == Len(q) = 0

\* Queue.put(item): appends at the tail (the caller waits while the queue is full).
Put(q, frame) == Append(q, frame)

\* Queue.get(), the item returned: the head (the caller waits while the queue is empty).
GetItem(q) == Head(q)

\* A get that returns the head and leaves it queued.
GetRestPeek(q) == q

\* Queue.get(), the queue left behind.
GetRest(q) == Tail(q)

HubInit ==
    /\ frame_queue = <<>>
    /\ running = TRUE
    /\ ppc = "loop"
    /\ captured = 0
    /\ published = 0
    /\ cpc = [c \in Consumers |-> "idle"]
    /\ last = [c \in Consumers |-> 0]
    /\ prev = [c \in Consumers |-> 0]
    /\ polled = [c \in Consumers |-> 0]
    /\ read_failed = FALSE

\* update(), line 91-92: the loop test passes and cap.read() returns a frame.
ProducerRead ==
    /\ ppc = "loop"
    /\ running
    /\ captured < MaxFrames
    /\ captured' = captured + 1
    /\ ppc' = "check"
    /\ UNCHANGED <<frame_queue, running, published, cpc, last, prev, polled, read_failed>>
    /\ UNCHANGED notHub

\* update(), lines 92-96: cap.read() fails; the thread sleeps 0.1 s ...
ProducerReadFail ==
    /\ ppc = "loop"
    /\ running
    /\ ppc' = "sleep"
    /\ UNCHANGED <<frame_queue, running, captured, published, cpc, last, prev, polled>>
    /\ read_failed' = TRUE
    /\ UNCHANGED notHub

\* ... and continues with the loop test.
ProducerWake ==
    /\ ppc = "sleep"
    /\ ppc' = "loop"
    /\ UNCHANGED <<frame_queue, running, captured, published, cpc, last, prev, polled, read_failed>>
    /\ UNCHANGED notHub

\* update(), line 97: the test of frame_queue.full() chooses the branch.
ProducerCheckFull ==
    /\ ppc = "check"
    /\ ppc' = IF Full(frame_queue) THEN "discard" ELSE "put"
    /\ UNCHANGED <<frame_queue, running, captured, published, cpc, last, prev, polled, read_failed>>
    /\ UNCHANGED notHub

\* update(), line 101: frame_queue.get() drops the oldest frame; it returns only
\* once the queue holds an item.
ProducerDiscard ==
    /\ ppc = "discard"
    /\ ~Empty(frame_queue)
    /\ frame_queue' = GetRest(frame_queue)
    /\ ppc' = "put"
    /\ UNCHANGED <<running, captured, published, cpc, last, prev, polled, read_failed>>
    /\ UNCHANGED notHub

\* update(), lines 98 and 102: frame_queue.put(frame); it returns only once the
\* queue has room.
ProducerPut ==
    /\ ppc = "put"
    /\ ~Full(frame_queue)
    /\ frame_queue' = Put(frame_queue, captured)
    /\ published' = captured
    /\ ppc' = "loop"
    /\ UNCHANGED <<running, captured, cpc, last, prev, polled, read_failed>>
    /\ UNCHANGED notHub

\* update(), lines 91 and 103-104: the loop test fails; the device is released.
ProducerExit ==
    /\ ppc = "loop"
    /\ ~running
    /\ ppc' = "released"
    /\ UNCHANGED <<frame_queue, running, captured, published, cpc, last, prev, polled, read_failed>>
    /\ UNCHANGED notHub

\* stop(), line 118, called by the main thread once the Flask server exits.
Stop ==
    /\ running
    /\ running' = FALSE
    /\ UNCHANGED <<frame_queue, ppc, captured, published, cpc, last, prev, polled, read_failed>>
    /\ UNCHANGED notHub

\* get_frame(), lines 110 and 112: the queue is empty, None is returned.
GetFrameNone(c) ==
    /\ cpc[c] = "idle"
    /\ Empty(frame_queue)
    /\ UNCHANGED hubVars
    /\ UNCHANGED notHub

\* get_frame(), line 110: the queue is not empty; the caller goes on to get().
GetFrameCheck(c) ==
    /\ cpc[c] = "idle"
    /\ ~Empty(frame_queue)
    /\ cpc' = [cpc EXCEPT ![c] = "get"]
    /\ polled' = [polled EXCEPT ![c] = published]
    /\ UNCHANGED <<frame_queue, running, ppc, captured, published, last, prev, read_failed>>
    /\ UNCHANGED notHub

\* get_frame(), line 111: frame_queue.get() returns the head to the caller; it
\* returns only once the queue holds an item.
GetFrameGet(c) ==
    /\ cpc[c] = "get"
    /\ ~Empty(frame_queue)
    /\ last' = [last EXCEPT ![c] = GetItem(frame_queue)]
    /\ prev' = [prev EXCEPT ![c] = last[c]]
    /\ frame_queue' = GetRest(frame_queue)
    /\ cpc' = [cpc EXCEPT ![c] = "idle"]
    /\ polled' = [polled EXCEPT ![c] = 0]
    /\ UNCHANGED <<running, ppc, captured, published, read_failed>>
    /\ UNCHANGED notHub

HubNext ==
    \/ ProducerRead
    \/ ProducerReadFail
    \/ ProducerWake
    \/ ProducerCheckFull
    \/ ProducerDiscard
    \/ ProducerPut
    \/ ProducerExit
    \/ Stop
    \/ \E c \in Consumers : GetFrameNone(c)
    \/ \E c \in Consumers : GetFrameCheck(c)
    \/ \E c \in Consumers : GetFrameGet(c)

-----------------------------------------------------------------------------
(* Claims about the frame hub, checked under Spec. *)

\* The frames a consumer could still be handed: those queued now.
Queued == {frame_queue[i] : i \in 1..Len(frame_queue)}

\* C1 (per-consumer isolation): whenever a frame newer than the last one a
\* consumer obtained has been published, that frame or a newer one is still there
\* for this consumer to obtain, whatever the other consumers have polled.
C1_PerConsumerIsolation ==
    \A c \in Consumers :
        published > last[c] => \E f \in Queued : f > last[c]

\* C2 (latest-wins): the frame a poll returns to a consumer is the newest of the
\* frames published before the poll began (or a newer one); the frames
\* published before that one are never delivered to it.
C2_LatestWins ==
    [][\A c \in Consumers :
          (cpc[c] = "get" /\ cpc'[c] = "idle") => last'[c] >= polled[c]]_vars

\* C3 (freshness monotonicity): for every consumer, each non-empty frame it
\* obtains was captured strictly after the non-empty frame it obtained before.
C3_FreshnessMonotonic ==
    \A c \in Consumers : last[c] # 0 => prev[c] < last[c]

\* C3 witness: the recorder has obtained two frames, and the detector obtained
\* one captured between them.
C3_Witness ==
    /\ prev[Recorder] > 0
    /\ prev[Recorder] < last[Detector]
    /\ last[Detector] < last[Recorder]

\* The capture thread is inside a Queue call that cannot return in this state.
ProducerWaiting ==
    \/ ppc = "discard" /\ Empty(frame_queue)
    \/ ppc = "put" /\ Full(frame_queue)

\* C4 (the producer is never blocked by consumers): the publish step of update()
\* never has to wait, whatever the consumers did since its full() test.
C4_ProducerNeverBlocked == ~ProducerWaiting

\* C5 (poll is non-blocking): no caller of get_frame is ever left waiting inside
\* it for a frame to arrive.
C5_PollNeverBlocks ==
    \A c \in Consumers : ~(cpc[c] = "get" /\ Empty(frame_queue))

\* C16 (a failed read is transient): a failed cap.read() publishes nothing and
\* leaves the queue as it is; the thread pauses and goes back to the loop test;
\* the loop is left only once stop was requested; and a frame read after a
\* failure is still published: the thread is never left in a Queue call that
\* cannot return.
C16_ReadFailureTransient ==
    [][/\ (ppc = "loop" /\ ppc' = "sleep") =>
              (frame_queue' = frame_queue /\ published' = published)
       /\ (ppc = "sleep" /\ ppc' # "sleep") => ppc' = "loop"
       /\ ppc' = "released" => ~running'
       /\ read_failed' => ~ProducerWaiting']_vars

\* C22 (bounded buffering): under every interleaving the queue holds at most
\* queue_size frames; a put never finds the queue full; the producer that
\* finds the queue full goes on to discard, and its discard removes the head,
\* the oldest frame queued, while the new frame is still in its hand; the new
\* frame is then appended at the tail.
C22_BoundedBuffering ==
    /\ [](Len(frame_queue) <= queue_size)
    /\ [](~(ppc = "put" /\ Full(frame_queue)))
    /\ [][/\ (ppc = "check" /\ ppc' # "check" /\ Full(frame_queue)) =>
                (ppc' = "discard" /\ frame_queue' = frame_queue)
          /\ (ppc = "discard" /\ ppc' # "discard") =>
                /\ ppc' = "put"
                /\ frame_queue' = Tail(frame_queue)
                /\ \A f \in Queued : Head(frame_queue) <= f
                /\ captured \notin Queued
                /\ published' = published
          /\ published' # published =>
                /\ ppc = "put"
                /\ frame_queue' = Append(frame_queue, captured)
                /\ published' = captured
          /\ Len(frame_queue') > Len(frame_queue) => published' # published]_vars

\* C22 witness: the queue was full of the first frames when the next one was
\* read; no consumer has taken a frame, so it was the producer that dropped
\* frame 1, and the queue is full again with the new frame at its tail.
C22_Witness ==
    /\ frame_queue = [i \in 1..queue_size |-> i + 1]
    /\ published = queue_size + 1
    /\ ppc = "loop"
    /\ \A c \in Consumers : last[c] = 0

-----------------------------------------------------------------------------
(* The frame hub with a camera that delivers a frame at every read and is    *)
(* never stopped, under a fair scheduler: a thread that can take its next    *)
(* step eventually takes it.                                                 *)

\* update(), lines 91-92, past the MaxFrames-th frame: cap.read() returns a
\* frame, which carries the last tag.
ProducerReadAgain ==
    /\ ppc = "loop"
    /\ running
    /\ captured = MaxFrames
    /\ ppc' = "check"
    /\ UNCHANGED <<frame_queue, running, captured, published, cpc, last, prev, polled, read_failed>>
    /\ UNCHANGED notHub

\* A step of the capture thread in update().
ProducerStep ==
    \/ ProducerRead
    \/ ProducerReadAgain
    \/ ProducerCheckFull
    \/ ProducerDiscard
    \/ ProducerPut

\* A step of consumer c in get_frame() that does not return None.
ConsumerStep(c) ==
    \/ GetFrameCheck(c)
    \/ GetFrameGet(c)

FairNext ==
    \/ ProducerStep
    \/ \E c \in Consumers : GetFrameNone(c)
    \/ \E c \in Consumers : ConsumerStep(c)

\* The capture thread and every consumer keep running.  A consumer that finds
\* the queue empty returns None and polls again; only a queue that stays
\* non-empty is sure to be seen non-empty by its next poll.
Fairness ==
    /\ WF_vars(ProducerStep)
    /\ \A c \in Consumers : WF_vars(ConsumerStep(c))

\* The producer keeps capturing: again and again it is about to put a frame on
\* the queue, and again and again it has put it.
KeepsCapturing == []<>(ppc = "put") /\ []<>(ppc = "loop")

\* Consumer c keeps polling: again and again it is at the start of a
\* get_frame() call, never left waiting inside one.
KeepsPolling(c) == []<>(cpc[c] = "idle")

\* C17 (no consumer starvation): while the producer keeps capturing, every
\* consumer that keeps polling eventually obtains a frame, whatever the other
\* consumers do.
C17_NoStarvation ==
    \A c \in Consumers : (KeepsCapturing /\ KeepsPolling(c)) => <>(last[c] # 0)

-----------------------------------------------------------------------------
(* The frame hub while the main thread calls camera.stop(), under the same   *)
(* fair scheduler.                                                           *)

\* A step of the capture thread anywhere in update(), the exit included.
CaptureThreadStep ==
    \/ ProducerStep
    \/ ProducerReadFail
    \/ ProducerWake
    \/ ProducerExit

StopNext ==
    \/ CaptureThreadStep
    \/ Stop
    \/ \E c \in Consumers : GetFrameNone(c)
    \/ \E c \in Consumers : ConsumerStep(c)

\* The capture thread and every consumer keep running; the main thread calls
\* stop() when the server exits, if ever.
StopFairness ==
    /\ WF_vars(CaptureThreadStep)
    /\ \A c \in Consumers : WF_vars(ConsumerStep(c))

\* thread.join() in stop() returns once update() has returned, after
\* cap.release().
JoinReturns == ppc = "released"

\* C23 (stop terminates): once stop() has set running to false, the capture
\* thread eventually leaves its loop and releases the device, and the join in
\* stop() returns.
C23_StopTerminates == (~running) ~> JoinReturns

-----------------------------------------------------------------------------
(* The retention sweep: manage_storage of app.py and of security_camera.py. *)
(*                                                                          *)
(* A file name is a record: fmt "ts" is prefix + YYYYmmdd_HHMMSS + suffix,  *)
(* with val the time.mktime of that local time in seconds; fmt "bad" has    *)
(* the prefix and suffix around text strptime rejects; fmt "other" lacks    *)
(* the prefix or the suffix.  val tells names of one fmt apart.             *)

Hours(n) == n * 60 * 60

\* MAX_VIDEO_DURATION = 12 * 60 * 60 (both files)
MAX_VIDEO_DURATION == Hours(12)

\* MAX_ANOMY_IMAGES. The code keeps 2000; the model runs the same code with a
\* directory of a few names and this many to keep.
MAX_ANOMY_IMAGES == 2

\* A present-day reading of time.time().
Base == 1700 * 1000000

Stamped(t) == [fmt |-> "ts", val |-> t]
Unparseable(k) == [fmt |-> "bad", val |-> k]
Foreign(k) == [fmt |-> "other", val |-> k]

\* The names the directories are drawn from: stamps older than the cutoff, one
\* second around it, and well inside the window; and names without a timestamp.
VideoNames ==
    {Stamped(Base - Hours(13)), Stamped(Base - Hours(12)), Stamped(Base - Hours(1)),
     Unparseable(1), Foreign(1)}
AnomalyNames ==
    {Stamped(Base - Hours(13)), Stamped(Base - Hours(12)), Stamped(Base - Hours(3)),
     Stamped(Base - Hours(2)), Stamped(Base - Hours(1)),
     Unparseable(1), Unparseable(2), Unparseable(3), Foreign(1)}
SweepTimes == {Base, Base + 1}

\* filename.startswith(prefix) and filename.endswith(suffix)
HasPrefixAndSuffix(f) == f.fmt # "other"

\* datetime.strptime(timestamp_str, "%Y%m%d_%H%M%S") raises ValueError
ParseFails(f) == f.fmt # "ts"

\* time.mktime(datetime.strptime(...).timetuple()), where strptime succeeds
FileTime(f) == f.val

\* The comparison with the cutoff, taken inclusively.
ExpiredInclusive(file_time, cutoff) == file_time <= cutoff

\* file_time < cutoff
Expired(file_time, cutoff) == file_time < cutoff

\* One age loop over a directory listing: each matching name is parsed; a parse
\* error is caught and logged, an expired file is removed.
AgeSweep(dir, cutoff) ==
    {f \in dir : ~(HasPrefixAndSuffix(f) /\ ~ParseFails(f) /\ Expired(FileTime(f), cutoff))}

\* All orders in which the names of S can be enumerated.
RECURSIVE Orders(_)
Orders(S) ==
    IF S = {} THEN {<<>>}
    ELSE UNION {{<<f>> \o rest : rest \in Orders(S \ {f})} : f \in S}

\* The names of S with a timestamp, oldest first.
RECURSIVE Ascending(_)
Ascending(S) ==
    IF S = {} THEN <<>>
    ELSE LET f == CHOOSE x \in S : \A y \in S : x.val <= y.val
         IN <<f>> \o Ascending(S \ {f})

\* os.listdir(ANOMALY_STORAGE_DIR) filtered to anomaly_*.jpg: the orders the
\* listing may come in.  os.listdir promises no order; the order of names that
\* carry a timestamp cannot change what the sort below produces (their keys are
\* distinct and do not depend on the order), so they are listed oldest first,
\* followed by the other names in every possible order.
Listings(dir) ==
    LET files == {f \in dir : HasPrefixAndSuffix(f)}
        stamped == {f \in files : ~ParseFails(f)}
    IN {Ascending(stamped) \o rest : rest \in Orders(files \ stamped)}

\* extract_time(fpath) for the i-th name of the list being sorted, as a pair
\* <<seconds, order within the second>>: the embedded time, or on a parse error
\* datetime.now(), which is later than the sweep's own reading t of the clock
\* and later at each call.
ExtractTime(f, i, t) == IF ParseFails(f) THEN <<t, i>> ELSE <<FileTime(f), 0>>

Before(a, b) == a[1] < b[1] \/ (a[1] = b[1] /\ a[2] < b[2])

\* list.sort(key=extract_time, reverse=True): latest first.  Insertion from the
\* left, each element placed behind the elements whose key is not smaller, so
\* that elements with equal keys keep their order, as Python's sort does.
RECURSIVE InsertDesc(_, _, _)
InsertDesc(sorted, x, key) ==
    IF sorted = <<>> THEN <<x>>
    ELSE IF Before(key[Head(sorted)], key[x])
         THEN <<x>> \o sorted
         ELSE <<Head(sorted)>> \o InsertDesc(Tail(sorted), x, key)

RECURSIVE SortDescFrom(_, _, _, _)
SortDescFrom(sorted, files, i, key) ==
    IF i > Len(files) THEN sorted
    ELSE SortDescFrom(InsertDesc(sorted, files[i], key), files, i + 1, key)

SortLatestFirst(files, t) ==
    LET key == [f \in {files[i] : i \in 1..Len(files)} |->
                   ExtractTime(f, CHOOSE i \in 1..Len(files) : files[i] = f, t)]
    IN SortDescFrom(<<>>, files, 1, key)

\* for i in range(excess): os.remove(anomaly_files[-1]).  The list is never
\* shortened, so every pass names the same file; os.remove of a file that is
\* gone raises FileNotFoundError, which nothing in manage_storage catches.
RECURSIVE RemoveOldest(_, _, _)
RemoveOldest(dir, files, excess) ==
    IF excess = 0 THEN [dir |-> dir, raised |-> "none"]
    ELSE IF files[Len(files)] \notin dir
         THEN [dir |-> dir, raised |-> "FileNotFoundError"]
         ELSE RemoveOldest(dir \ {files[Len(files)]}, files, excess - 1)

\* Lines 208-217 of app.py: the count limit, given the listing of line 209.
CountSweep(dir, listing, t) ==
    IF Len(listing) > MAX_ANOMY_IMAGES
    THEN RemoveOldest(dir, SortLatestFirst(listing, t), Len(listing) - MAX_ANOMY_IMAGES)
    ELSE [dir |-> dir, raised |-> "none"]

RetInit ==
    /\ now \in SweepTimes
    /\ videos \in SUBSET VideoNames
    /\ anomalies \in SUBSET AnomalyNames
    /\ swept = "none"
    /\ pre_videos = {}
    /\ pre_anomalies = {}
    /\ raised = "none"

\* manage_storage() of app.py called at clock reading t on directories vs and
\* as, from the reading of the clock to its return or to the exception that ends
\* it: the directories it leaves and the exception, one outcome per order in
\* which line 209 may list the snapshots.
ManageStorageOutcomes(vs, as, t) ==
    LET cutoff == t - MAX_VIDEO_DURATION
        aged == AgeSweep(as, cutoff)
    IN {[videos |-> AgeSweep(vs, cutoff),
         anomalies |-> CountSweep(aged, listing, t).dir,
         raised |-> CountSweep(aged, listing, t).raised] : listing \in Listings(aged)}

\* A call of manage_storage() of app.py at the time `now'.
ManageStorage ==
    \E r \in ManageStorageOutcomes(videos, anomalies, now) :
        /\ videos' = r.videos
        /\ anomalies' = r.anomalies
        /\ raised' = r.raised
        /\ swept' = "app"
        /\ pre_videos' = videos
        /\ pre_anomalies' = anomalies
        /\ UNCHANGED now
        /\ UNCHANGED notRet

\* manage_storage() of security_camera.py: the two age loops only.
ManageStorageLegacy ==
    LET cutoff == now - MAX_VIDEO_DURATION
    IN /\ videos' = AgeSweep(videos, cutoff)
       /\ anomalies' = AgeSweep(anomalies, cutoff)
       /\ raised' = "none"
       /\ swept' = "legacy"
       /\ pre_videos' = videos
       /\ pre_anomalies' = anomalies
       /\ UNCHANGED now
       /\ UNCHANGED notRet

RetNext ==
    \/ ManageStorage
    \/ ManageStorageLegacy

-----------------------------------------------------------------------------
(* Claims about the retention sweep, checked under RetentionSpec. *)

AllStamped(dir) == \A f \in dir : f.fmt = "ts"

\* The files of dir whose embedded time is not older than now - max age.
InWindow(dir) == {f \in dir : f.val >= now - MAX_VIDEO_DURATION}

\* The n files of dir with the latest embedded times.
Newest(dir, n) == {f \in dir : Cardinality({g \in dir : g.val > f.val}) < n}

\* C8 (retention age policy): after one sweep over archive and snapshot files
\* that all carry a parseable timestamp, with no more snapshots inside the
\* window than the maximum count, exactly the files older than now - max age are
\* gone and every file inside the window remains.
C8_RetentionAgePolicy ==
    ( /\ swept # "none"
      /\ AllStamped(pre_videos)
      /\ AllStamped(pre_anomalies)
      /\ Cardinality(InWindow(pre_anomalies)) <= MAX_ANOMY_IMAGES )
    => /\ raised = "none"
       /\ videos = InWindow(pre_videos)
       /\ anomalies = InWindow(pre_anomalies)

\* C8 witness: a sweep of app.py at time Base found, in each directory, a file
\* stamped 13 h ago, one stamped exactly 12 h ago and one stamped 1 h ago; the
\* first is gone, the other two remain.
C8_Witness ==
    /\ swept = "app"
    /\ now = Base
    /\ pre_videos = {Stamped(Base - Hours(13)), Stamped(Base - Hours(12)), Stamped(Base - Hours(1))}
    /\ pre_anomalies = pre_videos
    /\ videos = {Stamped(Base - Hours(12)), Stamped(Base - Hours(1))}
    /\ anomalies = videos

\* C9 (parse-failure retention): no sweep, in any of its phases, deletes a file
\* whose name carries no parseable timestamp.
C9_ParseFailureRetention ==
    swept # "none" =>
        /\ {f \in pre_videos : ParseFails(f)} \subseteq videos
        /\ {f \in pre_anomalies : ParseFails(f)} \subseteq anomalies

\* C10 (retention count policy): a sweep of app.py that finds N > max count
\* snapshots, all inside the age window, returns having deleted exactly the
\* N - max oldest of them: the max-count newest remain.
C10_RetentionCountPolicy ==
    ( /\ swept = "app"
      /\ AllStamped(pre_anomalies)
      /\ InWindow(pre_anomalies) = pre_anomalies
      /\ Cardinality(pre_anomalies) > MAX_ANOMY_IMAGES )
    => /\ raised = "none"
       /\ anomalies = Newest(pre_anomalies, MAX_ANOMY_IMAGES)

\* C15 (the sweep is idempotent): a manage_storage run right after a run of the
\* same manage_storage, at the same reading of the clock and with no file
\* created in between, deletes nothing.
C15_SweepIdempotent ==
    [][(swept # "none" /\ swept' = swept) =>
          (videos' = videos /\ anomalies' = anomalies)]_vars


-----------------------------------------------------------------------------
(* manage_storage of app.py run by two threads at once: record_video calls   *)
(* it at line 363 and detect_anomalies at line 419, and nothing serialises   *)
(* the calls.  Each os.listdir and each pass of a loop is one step.          *)

\* The threads that call manage_storage.
Sweepers == {Recorder, Detector}

\* No file: the value of `gone' while no os.remove has raised out of the sweep.
NoFile == [fmt |-> "none", val |-> 0]

\* The directories the two sweeps meet: an expired and a recent archive file,
\* an expired snapshot, three recent ones and one without a timestamp.
SweepVideoNames == {Stamped(Base - Hours(13)), Stamped(Base - Hours(1))}
SweepAnomalyNames ==
    {Stamped(Base - Hours(13)), Stamped(Base - Hours(3)), Stamped(Base - Hours(2)),
     Stamped(Base - Hours(1)), Unparseable(1)}

SweepIdle ==
    /\ spc = [s \in Sweepers |-> "idle"]
    /\ todo = [s \in Sweepers |-> <<>>]
    /\ left = [s \in Sweepers |-> 0]
    /\ deleted = [s \in Sweepers |-> {}]
    /\ gone = [s \in Sweepers |-> NoFile]

SweepInit ==
    /\ now \in SweepTimes
    /\ videos \in SUBSET SweepVideoNames
    /\ anomalies \in SUBSET SweepAnomalyNames
    /\ swept = "none"
    /\ pre_videos = {}
    /\ pre_anomalies = {}
    /\ raised = "none"
    /\ SweepIdle

\* One pass of an age loop (lines 167-176, 198-206) over file f of directory
\* dir: the directory it leaves.  A name that does not parse and an os.remove
\* that finds the file gone both end in the except clause, which logs.
AgePass(dir, f, cutoff) ==
    IF ~ParseFails(f) /\ Expired(FileTime(f), cutoff) THEN dir \ {f} ELSE dir

\* Lines 158-166: the clock is read and VIDEO_STORAGE_DIR listed.
SweepBegin(s) ==
    /\ spc[s] = "idle"
    /\ \E listing \in Listings(videos) : todo' = [todo EXCEPT ![s] = listing]
    /\ spc' = [spc EXCEPT ![s] = "videos"]
    /\ UNCHANGED <<left, deleted, gone>>
    /\ UNCHANGED retVars
    /\ UNCHANGED notSweep

\* Lines 167-176: one pass of the loop over the archive files.
SweepVideoPass(s) ==
    /\ spc[s] = "videos"
    /\ todo[s] # <<>>
    /\ videos' = AgePass(videos, Head(todo[s]), now - MAX_VIDEO_DURATION)
    /\ deleted' = [deleted EXCEPT ![s] = deleted[s] \cup (videos \ videos')]
    /\ todo' = [todo EXCEPT ![s] = Tail(todo[s])]
    /\ UNCHANGED <<spc, left, gone>>
    /\ UNCHANGED <<now, anomalies, swept, pre_videos, pre_anomalies, raised>>
    /\ UNCHANGED notSweep

\* Lines 179-194: ANOMALY_STORAGE_DIR is listed and the list sorted.
SweepListAnomalies(s) ==
    /\ spc[s] = "videos"
    /\ todo[s] = <<>>
    /\ \E listing \in Listings(anomalies) :
          todo' = [todo EXCEPT ![s] = SortLatestFirst(listing, now)]
    /\ spc' = [spc EXCEPT ![s] = "age"]
    /\ UNCHANGED <<left, deleted, gone>>
    /\ UNCHANGED retVars
    /\ UNCHANGED notSweep

\* Lines 197-206: one pass of the age loop over the snapshots.
SweepAgePass(s) ==
    /\ spc[s] = "age"
    /\ todo[s] # <<>>
    /\ anomalies' = AgePass(anomalies, Head(todo[s]), now - MAX_VIDEO_DURATION)
    /\ deleted' = [deleted EXCEPT ![s] = deleted[s] \cup (anomalies \ anomalies')]
    /\ todo' = [todo EXCEPT ![s] = Tail(todo[s])]
    /\ UNCHANGED <<spc, left, gone>>
    /\ UNCHANGED <<now, videos, swept, pre_videos, pre_anomalies, raised>>
    /\ UNCHANGED notSweep

\* Lines 209-214: the directory is listed again; over the limit, the list is
\* sorted and the excess computed, else manage_storage returns.
SweepRelist(s) ==
    /\ spc[s] = "age"
    /\ todo[s] = <<>>
    /\ \E listing \in Listings(anomalies) :
          IF Len(listing) > MAX_ANOMY_IMAGES
          THEN /\ todo' = [todo EXCEPT ![s] = SortLatestFirst(listing, now)]
               /\ left' = [left EXCEPT ![s] = Len(listing) - MAX_ANOMY_IMAGES]
               /\ spc' = [spc EXCEPT ![s] = "count"]
          ELSE /\ spc' = [spc EXCEPT ![s] = "returned"]
               /\ UNCHANGED <<todo, left>>
    /\ UNCHANGED <<deleted, gone>>
    /\ UNCHANGED retVars
    /\ UNCHANGED notSweep

\* Lines 215-217: one pass of the count loop, os.remove(anomaly_files[-1]); a
\* file that is gone raises FileNotFoundError out of manage_storage.
SweepCountPass(s) ==
    LET oldest == todo[s][Len(todo[s])]
    IN /\ spc[s] = "count"
       /\ left[s] > 0
       /\ IF oldest \in anomalies
          THEN /\ anomalies' = anomalies \ {oldest}
               /\ deleted' = [deleted EXCEPT ![s] = deleted[s] \cup {oldest}]
               /\ left' = [left EXCEPT ![s] = left[s] - 1]
               /\ UNCHANGED <<spc, gone>>
          ELSE /\ spc' = [spc EXCEPT ![s] = "raised"]
               /\ gone' = [gone EXCEPT ![s] = oldest]
               /\ UNCHANGED <<anomalies, deleted, left>>
       /\ UNCHANGED todo
       /\ UNCHANGED <<now, videos, swept, pre_videos, pre_anomalies, raised>>
       /\ UNCHANGED notSweep

\* Line 215: the count loop is over; manage_storage returns.
SweepReturn(s) ==
    /\ spc[s] = "count"
    /\ left[s] = 0
    /\ spc' = [spc EXCEPT ![s] = "returned"]
    /\ UNCHANGED <<todo, left, deleted, gone>>
    /\ UNCHANGED retVars
    /\ UNCHANGED notSweep

SweepNext ==
    \/ \E s \in Sweepers : SweepBegin(s)
    \/ \E s \in Sweepers : SweepVideoPass(s)
    \/ \E s \in Sweepers : SweepListAnomalies(s)
    \/ \E s \in Sweepers : SweepAgePass(s)
    \/ \E s \in Sweepers : SweepRelist(s)
    \/ \E s \in Sweepers : SweepCountPass(s)
    \/ \E s \in Sweepers : SweepReturn(s)

-----------------------------------------------------------------------------
(* Claims about concurrent sweeps, checked under SweepSpec. *)

\* C11 (concurrent sweeps): a sweep that comes to delete a file which another
\* sweep has deleted since it was listed raises no error and goes on to
\* complete its remaining phases; no os.remove that finds a file gone through
\* another sweep ends manage_storage.
C11_ConcurrentSweepSafe ==
    \A s \in Sweepers :
        spc[s] = "raised" => \A o \in Sweepers \ {s} : gone[s] \notin deleted[o]

-----------------------------------------------------------------------------
(* The detector: detect_anomalies of app.py, one action per pass of its loop. *)
(* Time is time.time() in whole seconds and does not run backwards; Tick     *)
(* lets it pass between passes, lag within one.  The motion analysis is an   *)
(* input: a pass either flags an anomaly or does not.  cv2.imwrite, whose    *)
(* result the code does not look at, is taken to write the file.             *)

\* ANOMALY_COOLDOWN = 5.0
ANOMALY_COOLDOWN == 5

\* The detector starts DetStartOffset seconds after Base, a time whose
\* int(time.time()) % 60 is 20; it is followed for MaxElapsed seconds.
DetStartOffset == 36
MaxElapsed == 7

\* Seconds that may pass within one pass, between reading `now' (line 406) and
\* the later readings of the clock (lines 409 and 418).  Nothing in the code
\* bounds them; the model lets them reach the cooldown.
MaxLag == 5

DetStart == Base + DetStartOffset
MaxClock == DetStart + MaxElapsed

\* Snapshots left in ANOMALY_STORAGE_DIR by an earlier run.
Leftover == {Stamped(Base - Hours(3)), Stamped(Base - Hours(2)), Stamped(Base - Hours(1))}

\* The cooldown test that lets a detection through only after the cooldown.
CooldownOverStrict(t, last_capture) == t - last_capture > ANOMALY_COOLDOWN

\* now - last_capture_time >= ANOMALY_COOLDOWN
CooldownOver(t, last_capture) == t - last_capture >= ANOMALY_COOLDOWN

\* An update of last_capture_time that runs on every flagged pass.
NextCaptureTimeAlways(write, t, last_capture) == t

\* last_capture_time after a flagged pass: set to `now' only where the snapshot
\* was written (line 413).
NextCaptureTime(write, t, last_capture) == IF write THEN t ELSE last_capture

\* int(time.time()) % 60 == 0
SweepDue(t) == t % 60 = 0

\* The latest time at which a snapshot was written (0: none yet).
LastCaptured == IF snapshots = {} THEN 0 ELSE CHOOSE t \in snapshots : \A u \in snapshots : u <= t

DetInit ==
    /\ clock = DetStart
    /\ last_capture_time = 0
    /\ snapshots = {}
    /\ suppressed = {}
    /\ cycle = [outcome |-> "none", at |-> 0, before |-> 0]
    /\ detector_alive = TRUE
    /\ now = DetStart
    /\ videos = {}
    /\ anomalies \in {{}, Leftover}
    /\ swept = "none"
    /\ pre_videos = {}
    /\ pre_anomalies = {}
    /\ raised = "none"

\* time.sleep(...) and everything else that takes time.
Tick ==
    /\ clock < MaxClock
    /\ clock' = clock + 1
    /\ UNCHANGED <<last_capture_time, snapshots, suppressed, cycle, detector_alive>>
    /\ UNCHANGED notDet

\* Lines 382-386: get_frame() returned None; sleep and continue (the storage
\* check of line 418 is skipped).
DetectNoFrame ==
    /\ detector_alive
    /\ cycle' = [outcome |-> "noframe", at |-> clock, before |-> LastCaptured]
    /\ UNCHANGED <<clock, last_capture_time, snapshots, suppressed, detector_alive>>
    /\ UNCHANGED notDet

\* Lines 382-421: a pass with a frame.  anomaly_detected is the outcome of lines
\* 389-402; lag is the time that passes after line 406.
DetectFrame(anomaly_detected, lag) ==
    LET t == clock
        write == anomaly_detected /\ CooldownOver(t, last_capture_time)
        later == clock + lag
        written == IF write THEN anomalies \cup {Stamped(later)} ELSE anomalies
    IN /\ detector_alive
       /\ later <= MaxClock
       /\ clock' = later
       /\ last_capture_time' =
             IF anomaly_detected THEN NextCaptureTime(write, t, last_capture_time)
                                 ELSE last_capture_time
       /\ snapshots' = IF write THEN snapshots \cup {t} ELSE snapshots
       /\ suppressed' = IF anomaly_detected /\ ~write THEN suppressed \cup {t} ELSE suppressed
       /\ cycle' = [outcome |-> IF write THEN "captured"
                                ELSE IF anomaly_detected THEN "suppressed" ELSE "quiet",
                    at |-> t, before |-> LastCaptured]
       /\ IF SweepDue(later)
          THEN \E r \in ManageStorageOutcomes(videos, written, later) :
                  /\ videos' = r.videos
                  /\ anomalies' = r.anomalies
                  /\ raised' = r.raised
                  /\ detector_alive' = (r.raised = "none")
                  /\ swept' = "app"
                  /\ pre_videos' = videos
                  /\ pre_anomalies' = written
                  /\ now' = later
          ELSE /\ anomalies' = written
               /\ UNCHANGED <<videos, raised, detector_alive, swept, pre_videos, pre_anomalies, now>>
       /\ UNCHANGED <<hubVars, sweepVars, recVars, pageVars>>

DetNext ==
    \/ Tick
    \/ DetectNoFrame
    \/ \E anomaly_detected \in BOOLEAN, lag \in 0..MaxLag : DetectFrame(anomaly_detected, lag)

-----------------------------------------------------------------------------
(* Claims about the detector, checked under DetectorSpec. *)

\* C6 (cooldown gating): a flagged anomaly is written as a snapshot if and only
\* if no snapshot was captured before or the last successful capture is at
\* least the cooldown back; so the first flagged anomaly is always captured,
\* any two captures are at least one cooldown apart, and of detections at
\* t = 0, 1, 6 after start exactly those at 0 and 6 are written.
C6_CooldownGating ==
    /\ cycle.outcome \in {"captured", "suppressed"} =>
          (cycle.outcome = "captured" <=>
              (cycle.before = 0 \/ cycle.at - cycle.before >= ANOMALY_COOLDOWN))
    /\ snapshots = {} => suppressed = {}
    /\ \A a \in snapshots, b \in snapshots : a < b => b - a >= ANOMALY_COOLDOWN
    /\ (snapshots \cup suppressed = {DetStart, DetStart + 1, DetStart + 6}) =>
          snapshots = {DetStart, DetStart + 6}

\* C6 witness: anomalies were flagged at t = 0, 1 and 6 after start; the passes
\* at 0 and 6 wrote snapshots, the pass at 1 was suppressed.
C6_Witness ==
    /\ snapshots = {DetStart, DetStart + 6}
    /\ suppressed = {DetStart + 1}
    /\ cycle = [outcome |-> "captured", at |-> DetStart + 6, before |-> DetStart]

\* The file a capture at clock reading t may have written: named by the clock as
\* read up to MaxLag seconds later.
CaptureFiles == {Stamped(t + lag) : t \in snapshots, lag \in 0..MaxLag}

\* C7 (suppressed detections leave the cooldown alone): last_capture_time is
\* always the time of the last successful capture (0 before the first), whatever
\* suppressed, quiet and frameless passes came since, and no snapshot file
\* exists that a successful capture did not write.
C7_SuppressedLeavesCooldown ==
    /\ last_capture_time = LastCaptured
    /\ {f \in anomalies : f.val >= DetStart} \subseteq CaptureFiles

\* C7 witness: after a capture at start, anomalies flagged 1 s and 4 s later were
\* suppressed, the latter in the pass just made; the cooldown is still counted
\* from the capture and the capture's file is the only one this run wrote.
C7_Witness ==
    /\ cycle = [outcome |-> "suppressed", at |-> DetStart + 4, before |-> DetStart]
    /\ suppressed = {DetStart + 1, DetStart + 4}
    /\ last_capture_time = DetStart
    /\ {f \in anomalies : f.val >= DetStart} = {Stamped(DetStart)}

\* C13 (failure containment): an error raised in a cycle of the detector loop,
\* here by the retention sweep the cycle calls, does not end the loop: the
\* thread is still in its loop for the next cycle.
C13_FailureContained ==
    (swept = "app" /\ raised # "none") => detector_alive


\* C24 (snapshots are immutable once written): a capture never writes to a
\* file name that is already in ANOMALY_STORAGE_DIR, so any two captures get
\* distinct names and no snapshot is overwritten; and a snapshot leaves the
\* directory only in a pass whose retention sweep ran.
C24_SnapshotsImmutable ==
    [][/\ snapshots' # snapshots => Stamped(clock') \notin anomalies
       /\ anomalies \ anomalies' # {} => (SweepDue(clock') /\ swept' = "app")]_vars

-----------------------------------------------------------------------------
(* The recorder: record_video of app.py and of security_camera.py, one       *)
(* action per cycle of its loop, and the end of __main__ of app.py.  The     *)
(* frame a cycle polls is an input, tagged with its number; the encoder is   *)
(* taken to accept every frame written to it.                                *)

\* VIDEO_DURATION, the length of a chunk in seconds.  The code sets 30 * 60;
\* the model runs the same code with chunks of a few seconds.
VIDEO_DURATION == 2

\* The recorder starts RecStartOffset seconds after Base, a time whose
\* int(time.time()) % 300 is 200; it is followed for MaxRecElapsed seconds and
\* MaxRecFrames frames.
RecStartOffset == 96
MaxRecElapsed == 6
MaxRecFrames == 5

RecStart == Base + RecStartOffset
MaxRecClock == RecStart + MaxRecElapsed

\* Snapshots in ANOMALY_STORAGE_DIR when the recorder starts: none, or two more
\* than MAX_ANOMY_IMAGES.
Backlog == Leftover \cup {Stamped(Base - Hours(4))}

\* A rotation test that fires one second early.
RotationDueEarly(t, end) == t >= end - 1

\* time.time() >= end_time
RotationDue(t, end) == t >= end

\* An end_time that leaves the chunk no duration.
EndTimeAtOpen(t, end) == t

\* end_time = time.time() + VIDEO_DURATION, on opening a chunk
EndTimeAfterOpen(t, end) == t + VIDEO_DURATION

\* A write that drops the frame.
WriteFrameDropped(files, chunk, frame) == files

\* video_writer.write(frame)
WriteFrame(files, chunk, frame) == files \cup {<<chunk, frame>>}

\* cv2.VideoWriter(video_filename, ...): the file is created, or replaced where
\* a chunk of that name exists.
OpenChunk(files, chunk) == {w \in files : w[1] # chunk}

\* int(time.time()) % 300 == 0
RecorderSweepDue(t) == t % 300 = 0

NoCycle == [kind |-> "none", frame |-> 0, due |-> FALSE, wrote |-> NoFile, closed |-> NoFile]

RecIdle ==
    /\ rec_impl = "app"
    /\ video_writer = NoFile
    /\ end_time = 0
    /\ opened = {}
    /\ chunk_frames = {}
    /\ released = {}
    /\ rec_polled = 0
    /\ rec_cycle = NoCycle
    /\ rec_alive = TRUE
    /\ process = "serving"

\* Lines 332-336 of app.py, 96-100 of security_camera.py: the locals before the
\* loop.
RecInit ==
    /\ rec_impl \in {"app", "legacy"}
    /\ video_writer = NoFile
    /\ end_time = RecStart + VIDEO_DURATION
    /\ opened = {}
    /\ chunk_frames = {}
    /\ released = {}
    /\ rec_polled = 0
    /\ rec_cycle = NoCycle
    /\ rec_alive = TRUE
    /\ process = "serving"
    /\ clock = RecStart
    /\ now = RecStart
    /\ videos = {}
    /\ anomalies \in {{}, Backlog}
    /\ swept = "none"
    /\ pre_videos = {}
    /\ pre_anomalies = {}
    /\ raised = "none"

\* time.sleep(...) and everything else that takes time.
RecTick ==
    /\ clock < MaxRecClock
    /\ process = "serving"
    /\ clock' = clock + 1
    /\ UNCHANGED recVars
    /\ UNCHANGED retVars
    /\ UNCHANGED notRec

\* app.py lines 339-343: get_frame() returned None; sleep and continue.
RecordNoFrame ==
    /\ rec_impl = "app"
    /\ rec_alive
    /\ process = "serving"
    /\ rec_cycle' = [NoCycle EXCEPT !.kind = "noframe"]
    /\ UNCHANGED <<rec_impl, video_writer, end_time, opened, chunk_frames, released, rec_polled,
                   rec_alive, process>>
    /\ UNCHANGED clock
    /\ UNCHANGED retVars
    /\ UNCHANGED notRec

\* app.py lines 339-365: a cycle with a frame.  The clock reads `clock' at line
\* 347, open_lag later at line 351 and lag after that at lines 356 and 362.
RecordFrame(open_lag, lag) ==
    LET frame == rec_polled + 1
        opening == video_writer = NoFile
        chunk == IF opening THEN Stamped(clock) ELSE video_writer
        t_open == clock + open_lag
        end == IF opening THEN EndTimeAfterOpen(t_open, end_time) ELSE end_time
        later == t_open + lag
        due == RotationDue(later, end)
        files == IF opening THEN videos \cup {chunk} ELSE videos
    IN /\ rec_impl = "app"
       /\ rec_alive
       /\ process = "serving"
       /\ rec_polled < MaxRecFrames
       /\ opening \/ open_lag = 0
       /\ later <= MaxRecClock
       /\ rec_polled' = frame
       /\ opened' = IF opening THEN opened \cup {[chunk |-> chunk, at |-> t_open]} ELSE opened
       /\ end_time' = end
       /\ chunk_frames' =
             WriteFrame(IF opening THEN OpenChunk(chunk_frames, chunk) ELSE chunk_frames,
                        chunk, frame)
       /\ video_writer' = IF due THEN NoFile ELSE chunk
       /\ released' = IF due THEN released \cup {[chunk |-> chunk, at |-> later]} ELSE released
       /\ rec_cycle' = [kind |-> "frame", frame |-> frame, due |-> due, wrote |-> chunk,
                        closed |-> IF due THEN chunk ELSE NoFile]
       /\ clock' = later
       /\ IF RecorderSweepDue(later)
          THEN \E r \in ManageStorageOutcomes(files, anomalies, later) :
                  /\ videos' = r.videos
                  /\ anomalies' = r.anomalies
                  /\ raised' = r.raised
                  /\ rec_alive' = (r.raised = "none")
                  /\ swept' = "app"
                  /\ pre_videos' = files
                  /\ pre_anomalies' = anomalies
                  /\ now' = later
          ELSE /\ videos' = files
               /\ UNCHANGED <<anomalies, raised, rec_alive, swept, pre_videos, pre_anomalies, now>>
       /\ UNCHANGED <<rec_impl, process>>
       /\ UNCHANGED notRec

\* security_camera.py lines 103-124: a cycle with a frame.  The clock reads
\* `clock' at lines 108 and 111 and lag later at lines 115 and 134.
LegacyRecordFrame(lag) ==
    LET frame == rec_polled + 1
        due == RotationDue(clock, end_time)
        chunk == IF due THEN Stamped(clock) ELSE video_writer
        later == clock + lag
        files == IF due THEN videos \cup {chunk} ELSE videos
        cutoff == later - MAX_VIDEO_DURATION
    IN /\ rec_impl = "legacy"
       /\ rec_alive
       /\ process = "serving"
       /\ rec_polled < MaxRecFrames
       /\ later <= MaxRecClock
       /\ rec_polled' = frame
       /\ opened' = IF due THEN opened \cup {[chunk |-> chunk, at |-> later]} ELSE opened
       /\ released' = IF due /\ video_writer # NoFile
                      THEN released \cup {[chunk |-> video_writer, at |-> clock]}
                      ELSE released
       /\ end_time' = IF due THEN EndTimeAfterOpen(later, end_time) ELSE end_time
       /\ video_writer' = chunk
       /\ chunk_frames' =
             IF chunk # NoFile
             THEN WriteFrame(IF due THEN OpenChunk(chunk_frames, chunk) ELSE chunk_frames,
                             chunk, frame)
             ELSE chunk_frames
       /\ rec_cycle' = [kind |-> "frame", frame |-> frame, due |-> due, wrote |-> chunk,
                        closed |-> IF due THEN video_writer ELSE NoFile]
       /\ clock' = later
       /\ videos' = AgeSweep(files, cutoff)
       /\ anomalies' = AgeSweep(anomalies, cutoff)
       /\ raised' = "none"
       /\ swept' = "legacy"
       /\ pre_videos' = files
       /\ pre_anomalies' = anomalies
       /\ now' = later
       /\ UNCHANGED <<rec_impl, rec_alive, process>>
       /\ UNCHANGED notRec

\* security_camera.py lines 103-106 and 126-128: cap.read() fails; the loop is
\* left and the open chunk released.
LegacyReadFail ==
    /\ rec_impl = "legacy"
    /\ rec_alive
    /\ process = "serving"
    /\ rec_alive' = FALSE
    /\ video_writer' = NoFile
    /\ released' = IF video_writer # NoFile
                   THEN released \cup {[chunk |-> video_writer, at |-> clock]}
                   ELSE released
    /\ rec_cycle' = [NoCycle EXCEPT !.kind = "readfail", !.closed = video_writer]
    /\ UNCHANGED <<rec_impl, end_time, opened, chunk_frames, rec_polled, process>>
    /\ UNCHANGED clock
    /\ UNCHANGED retVars
    /\ UNCHANGED notRec

RecNext ==
    \/ RecTick
    \/ RecordNoFrame
    \/ \E open_lag \in 0..MaxLag, lag \in 0..MaxLag : RecordFrame(open_lag, lag)
    \/ \E lag \in 0..MaxLag : LegacyRecordFrame(lag)
    \/ LegacyReadFail

\* app.py lines 443-447: the Flask server has returned and camera.stop() has
\* joined the capture thread; __main__ ends, and with it the daemon threads
\* record_video and detect_anomalies, wherever they are.
ProcessExit ==
    /\ process = "serving"
    /\ ppc = "released"
    /\ process' = "exited"
    /\ UNCHANGED <<rec_impl, video_writer, end_time, opened, chunk_frames, released, rec_polled,
                   rec_cycle, rec_alive>>
    /\ UNCHANGED clock
    /\ UNCHANGED retVars
    /\ UNCHANGED notRec

\* The recorder of app.py until the process ends.
ShutdownNext ==
    \/ RecTick
    \/ RecordNoFrame
    \/ \E open_lag \in 0..MaxLag, lag \in 0..MaxLag : RecordFrame(open_lag, lag)
    \/ Stop
    \/ ProducerExit
    \/ ProcessExit

-----------------------------------------------------------------------------
(* Claims about the recorder, checked under RecorderSpec and ShutdownSpec. *)

\* The latest cycle polled a frame and found the rotation due.
RotationCycle == rec_cycle.kind = "frame" /\ rec_cycle.due

\* C12 (rotation boundary), as claimed: the frame polled in the cycle in which
\* the rotation becomes due is written to the new chunk, not to the chunk this
\* cycle closes, and is not discarded.
C12_RotationBoundary ==
    RotationCycle =>
        /\ <<rec_cycle.wrote, rec_cycle.frame>> \in chunk_frames
        /\ rec_cycle.wrote # rec_cycle.closed

\* C12 as amended: the frame polled in the cycle in which the rotation becomes
\* due is written to a chunk and never discarded: by app.py to the chunk that
\* this cycle then closes (the next polled frame opens the new chunk), by
\* security_camera.py to the chunk this cycle opens.
C12_RotationBoundaryAmended ==
    RotationCycle =>
        /\ rec_cycle.wrote # NoFile
        /\ <<rec_cycle.wrote, rec_cycle.frame>> \in chunk_frames
        /\ rec_impl = "app" => (rec_cycle.wrote = rec_cycle.closed /\ video_writer = NoFile)
        /\ rec_impl = "legacy" => (rec_cycle.wrote = video_writer /\ rec_cycle.wrote # rec_cycle.closed)

\* C12 witness: the recorder of app.py wrote three frames to the chunk opened at
\* the start; the third was polled two seconds on, when the rotation was due,
\* and the chunk is now closed.
C12_Witness ==
    /\ rec_impl = "app"
    /\ RotationCycle
    /\ rec_cycle.frame = 3
    /\ chunk_frames = {<<Stamped(RecStart), 1>>, <<Stamped(RecStart), 2>>, <<Stamped(RecStart), 3>>}
    /\ released = {[chunk |-> Stamped(RecStart), at |-> RecStart + VIDEO_DURATION]}
    /\ video_writer = NoFile

\* C18 (release on shutdown): once the capture thread has been stopped, and
\* when the process has ended, no chunk is open: the recorder closed its chunk
\* before.
C18_ChunkClosedAtExit ==
    (ppc = "released" \/ process = "exited") => video_writer = NoFile

\* C19 (the recorder writes every frame it polls): in either implementation
\* every cycle with a frame writes it to a chunk, opening one where none is
\* open, so that every frame polled so far is in a chunk.
C19_EveryPolledFrameWritten ==
    /\ rec_cycle.kind = "frame" => rec_cycle.wrote # NoFile
    /\ \A f \in 1..rec_polled : \E w \in chunk_frames : w[2] = f

\* C20 (chunk rotation timing): record_video of app.py closes a chunk only when
\* at least the chunk duration has passed since it was opened, so the start
\* times of the chunks are at least one chunk duration apart, and every closed
\* chunk holds at least one frame.
C20_ChunkRotationTiming ==
    rec_impl = "app" =>
        /\ \A r \in released : \A o \in opened :
              o.chunk = r.chunk => r.at - o.at >= VIDEO_DURATION
        /\ \A a \in opened, b \in opened :
              a.chunk.val < b.chunk.val => b.chunk.val - a.chunk.val >= VIDEO_DURATION
        /\ \A r \in released : \E w \in chunk_frames : w[1] = r.chunk

\* C20 witness: two chunks of app.py have been closed, the second started one
\* chunk duration after the first, and a third is open.
C20_Witness ==
    /\ rec_impl = "app"
    /\ released = {[chunk |-> Stamped(RecStart), at |-> RecStart + VIDEO_DURATION],
                   [chunk |-> Stamped(RecStart + VIDEO_DURATION),
                    at |-> RecStart + 2 * VIDEO_DURATION]}
    /\ video_writer = Stamped(RecStart + 2 * VIDEO_DURATION)
    /\ rec_polled = 5

\* The chunks a writer has been opened on and not yet released.
OpenChunks == {o.chunk : o \in opened} \ {r.chunk : r \in released}

\* C21 (one chunk open, closing is final): in every state of the recorder at
\* most one chunk is open for writing, the one video_writer holds; and in every
\* step a chunk that was closed before it gains no frame, loses none, and is not
\* the chunk the writer is opened on.
C21_OneOpenChunkClosedIsFinal ==
    /\ [](Cardinality(OpenChunks) <= 1)
    /\ [](OpenChunks = IF video_writer = NoFile THEN {} ELSE {video_writer})
    /\ [][\A r \in released :
             /\ {w \in chunk_frames' : w[1] = r.chunk} = {w \in chunk_frames : w[1] = r.chunk}
             /\ video_writer' # r.chunk
             /\ \A o \in opened' \ opened : o.chunk # r.chunk]_vars

\* C21 witness: a chunk has been closed with its frames, and the cycle just
\* over wrote a later frame to another chunk, which is the one open.
C21_Witness ==
    /\ \E r \in released :
          /\ r.chunk # video_writer
          /\ \E w \in chunk_frames : w[1] = r.chunk /\ w[2] < rec_cycle.frame
    /\ rec_cycle.kind = "frame"
    /\ video_writer # NoFile
    /\ rec_cycle.wrote = video_writer
    /\ <<video_writer, rec_cycle.frame>> \in chunk_frames
    /\ OpenChunks = {video_writer}

-----------------------------------------------------------------------------
(* GET /get_anomalies: the route get_anomalies of app.py.  A file name is the *)
(* list of its code points; Python compares strings code point by code point. *)

\* The largest `page' and `per_page' requested, and the most names listed.
MaxPage == 3
MaxPerPage == 3
MaxNames == 4

\* "anomaly_", ".jpg", "video_", ".png" and "/anomalies/"
AnomalyPrefix == <<97, 110, 111, 109, 97, 108, 121, 95>>
JpgSuffix == <<46, 106, 112, 103>>
VideoPrefix == <<118, 105, 100, 101, 111, 95>>
PngSuffix == <<46, 112, 110, 103>>
UrlPrefix == <<47, 97, 110, 111, 109, 97, 108, 105, 101, 115, 47>>

\* What stands between prefix and suffix: "", "1", "2", "11", "12", "21".
Bodies == {<<>>, <<49>>, <<50>>, <<49, 49>>, <<49, 50>>, <<50, 49>>}

\* The names the directory may hold: snapshots, and two files that are not.
PageNames ==
    {AnomalyPrefix \o b \o JpgSuffix : b \in Bodies}
        \cup {VideoPrefix \o <<49>> \o JpgSuffix, AnomalyPrefix \o <<50>> \o PngSuffix}

\* str.startswith and str.endswith
StartsWith(name, prefix) ==
    Len(name) >= Len(prefix) /\ SubSeq(name, 1, Len(prefix)) = prefix
EndsWith(name, suffix) ==
    Len(name) >= Len(suffix) /\ SubSeq(name, Len(name) - Len(suffix) + 1, Len(name)) = suffix

\* f.startswith("anomaly_") and f.endswith(".jpg")
IsSnapshotName(f) == StartsWith(f, AnomalyPrefix) /\ EndsWith(f, JpgSuffix)

\* a < b on Python strings
RECURSIVE StrLess(_, _)
StrLess(a, b) ==
    IF b = <<>> THEN FALSE
    ELSE IF a = <<>> THEN TRUE
    ELSE IF Head(a) # Head(b) THEN Head(a) < Head(b)
    ELSE StrLess(Tail(a), Tail(b))

\* The list comprehension of line 283: the snapshot names, in listing order.
RECURSIVE SnapshotNames(_)
SnapshotNames(names) ==
    IF names = <<>> THEN <<>>
    ELSE IF IsSnapshotName(Head(names))
         THEN <<Head(names)>> \o SnapshotNames(Tail(names))
         ELSE SnapshotNames(Tail(names))

\* anomaly_files.sort(reverse=True): insertion from the left, each name placed
\* behind the names that are not smaller.
RECURSIVE InsertNameDesc(_, _)
InsertNameDesc(sorted, x) ==
    IF sorted = <<>> THEN <<x>>
    ELSE IF StrLess(Head(sorted), x)
         THEN <<x>> \o sorted
         ELSE <<Head(sorted)>> \o InsertNameDesc(Tail(sorted), x)

RECURSIVE SortNamesDescFrom(_, _)
SortNamesDescFrom(sorted, names) ==
    IF names = <<>> THEN sorted
    ELSE SortNamesDescFrom(InsertNameDesc(sorted, Head(names)), Tail(names))

SortNamesDesc(names) == SortNamesDescFrom(<<>>, names)

\* An index of a slice brought into 0..n as Python does: a negative index
\* counts from the end.
SliceIndex(i, n) ==
    IF i < 0 THEN (IF i + n < 0 THEN 0 ELSE i + n)
    ELSE (IF i > n THEN n ELSE i)

\* list[start:end]
Slice(list, start, end) ==
    SubSeq(list, SliceIndex(start, Len(list)) + 1, SliceIndex(end, Len(list)))

\* request.args.get(name, default=..., type=int)
NoArg == [given |-> FALSE, val |-> 0]
Arg(n) == [given |-> TRUE, val |-> n]
ArgOr(arg, default) == IF arg.given THEN arg.val ELSE default

\* A page start that counts pages from 0.
PageStartFromZero(p, n) == p * n

\* start = (page - 1) * per_page
PageStart(p, n) == (p - 1) * n

\* f'/anomalies/{filename}'
Url(filename) == UrlPrefix \o filename

\* All lists of at most n distinct names of S.
RECURSIVE ListsUpTo(_, _)
ListsUpTo(S, n) ==
    IF n = 0 THEN {<<>>}
    ELSE {<<>>} \cup UNION {{<<f>> \o rest : rest \in ListsUpTo(S \ {f}, n - 1)} : f \in S}

PageIdle ==
    /\ dir_listing = <<>>
    /\ page = NoArg
    /\ per_page = NoArg
    /\ images = <<>>
    /\ responded = FALSE

PageInit ==
    /\ dir_listing \in ListsUpTo(PageNames, MaxNames)
    /\ page \in {NoArg} \cup {Arg(n) : n \in 0..MaxPage}
    /\ per_page \in {NoArg} \cup {Arg(n) : n \in 0..MaxPerPage}
    /\ images = <<>>
    /\ responded = FALSE

\* Lines 279-295: the request is served.
GetAnomalies ==
    LET p == ArgOr(page, 1)
        n == ArgOr(per_page, 20)
        anomaly_files == SortNamesDesc(SnapshotNames(dir_listing))
        start == PageStart(p, n)
        end == start + n
        paginated_files == Slice(anomaly_files, start, end)
    IN /\ ~responded
       /\ images' = [i \in 1..Len(paginated_files) |-> Url(paginated_files[i])]
       /\ responded' = TRUE
       /\ UNCHANGED <<dir_listing, page, per_page>>
       /\ UNCHANGED notPage

PageNext == GetAnomalies

-----------------------------------------------------------------------------
(* Claims about get_anomalies, checked under PageSpec. *)

\* The snapshot names of the listing, and the position of one of them in the
\* list sorted by file name descending (1: the greatest name).
ListedSnapshots == {dir_listing[i] : i \in 1..Len(dir_listing)} \cap {f \in PageNames : IsSnapshotName(f)}
Rank(f) == 1 + Cardinality({g \in ListedSnapshots : StrLess(f, g)})

\* C14 (pagination): for page P >= 1 and page size N >= 1 the response holds
\* exactly the names at positions (P-1)*N+1 .. P*N of the snapshot names sorted
\* by file name descending, in that order; beyond the end it is empty.
C14_Pagination ==
    (responded /\ page.given /\ per_page.given /\ page.val >= 1 /\ per_page.val >= 1) =>
        LET first == (page.val - 1) * per_page.val + 1
            positions == {k \in first..(page.val * per_page.val) : k <= Cardinality(ListedSnapshots)}
        IN /\ Len(images) = Cardinality(positions)
           /\ \A i \in 1..Len(images) :
                 \E f \in ListedSnapshots : images[i] = Url(f) /\ Rank(f) = first + i - 1

\* C14 witness: of "anomaly_1.jpg", "anomaly_.jpg", "anomaly_21.jpg" and
\* "anomaly_2.jpg", listed in that order, page 2 of size 2 is "anomaly_1.jpg"
\* followed by "anomaly_.jpg".
C14_Witness ==
    /\ responded
    /\ page = Arg(2)
    /\ per_page = Arg(2)
    /\ dir_listing = <<AnomalyPrefix \o <<49>> \o JpgSuffix, AnomalyPrefix \o JpgSuffix,
                   AnomalyPrefix \o <<50, 49>> \o JpgSuffix, AnomalyPrefix \o <<50>> \o JpgSuffix>>
    /\ images = <<Url(AnomalyPrefix \o <<49>> \o JpgSuffix), Url(AnomalyPrefix \o JpgSuffix)>>

\* C14 witness beyond the end: page 3 of size 2 of the same kind of directory
\* is empty.
C14_WitnessBeyond ==
    /\ responded
    /\ page = Arg(3)
    /\ per_page = Arg(2)
    /\ Cardinality(ListedSnapshots) = 4
    /\ images = <<>>

DetIdle ==
    /\ clock = 0
    /\ last_capture_time = 0
    /\ snapshots = {}
    /\ suppressed = {}
    /\ cycle = [outcome |-> "none", at |-> 0, before |-> 0]
    /\ detector_alive = TRUE

RetIdle ==
    /\ now = 0
    /\ videos = {}
    /\ anomalies = {}
    /\ swept = "none"
    /\ pre_videos = {}
    /\ pre_anomalies = {}
    /\ raised = "none"

\* The camera as constructed, with no frame read yet.
HubIdle == HubInit

-----------------------------------------------------------------------------
(* The specifications. *)

\* The frame hub with its consumers.
Init == HubInit /\ DetIdle /\ RetIdle /\ SweepIdle /\ RecIdle /\ PageIdle

Spec == Init /\ [][HubNext]_vars

\* The frame hub under a fair scheduler and an unending supply of frames.
FairSpec == Init /\ [][FairNext]_vars /\ Fairness

\* The frame hub with camera.stop(), threads scheduled fairly.
StopSpec == Init /\ [][StopNext]_vars /\ StopFairness

\* The detector loop, with the retention sweep it calls.
DetectorInit == HubIdle /\ DetInit /\ SweepIdle /\ RecIdle /\ PageIdle

DetectorSpec == DetectorInit /\ [][DetNext]_vars

\* The retention sweep on arbitrary directories.
RetentionInit == HubIdle /\ DetIdle /\ RetInit /\ SweepIdle /\ RecIdle /\ PageIdle

RetentionSpec == RetentionInit /\ [][RetNext]_vars

\* Two threads inside manage_storage of app.py at once.
SweepStartInit == HubIdle /\ DetIdle /\ SweepInit /\ RecIdle /\ PageIdle

SweepSpec == SweepStartInit /\ [][SweepNext]_vars

\* The detector's locals while only the recorder is followed.
DetAside ==
    /\ last_capture_time = 0
    /\ snapshots = {}
    /\ suppressed = {}
    /\ cycle = [outcome |-> "none", at |-> 0, before |-> 0]
    /\ detector_alive = TRUE

\* The recorder loop of either file, with the retention sweep it calls.
RecorderInit == HubIdle /\ DetAside /\ SweepIdle /\ RecInit /\ PageIdle

RecorderSpec == RecorderInit /\ [][RecNext]_vars

\* The recorder of app.py while the main thread shuts the process down.
ShutdownInit == RecorderInit /\ rec_impl = "app"

ShutdownSpec == ShutdownInit /\ [][ShutdownNext]_vars

\* Requests to /get_anomalies on an arbitrary directory.
PageStartInit == HubIdle /\ DetIdle /\ RetIdle /\ SweepIdle /\ RecIdle /\ PageInit

PageSpec == PageStartInit /\ [][PageNext]_vars

=============================================================================
